---- MODULE Spec2Model ----
(***************************************************************************)
(* A model of the ICP build verifier: the hash verification command lines, *)
(* the proposal monitor and its filter, the repository classification of   *)
(* the resolver and of the build scripts, and the verification state file. *)
(*                                                                         *)
(* JavaScript strings are sequences of one-character strings; the JSON     *)
(* scalars null, undefined, true and false and the status words are        *)
(* one-element sequences holding a token that is no character, so that     *)
(* every JSON scalar of the model is a sequence and any two compare.       *)
(***************************************************************************)
EXTENDS Integers, Sequences, FiniteSets, TLC

(***************************************************************************)
(* Bounds of the model.                                                    *)
(***************************************************************************)
MaxHashLen == 2
MaxClock == 1
MaxProposals == 2
MaxSuffixes == 2
MaxMonitorRuns == 2
MaxSteps == 2

(***************************************************************************)
(* JSON scalars.                                                           *)
(***************************************************************************)
Null == <<"null">>
Undefined == <<"undefined">>
JTrue == <<"true">>
JFalse == <<"false">>
EmptyString == <<>>

\* The number NaN, which parseInt gives for a text that starts with no digit.
NaN == <<"NaN">>

\* JavaScript truthiness of a string-or-null value: null, undefined and ""
\* are falsy (`if (!expectedHash)`, `if (upgradeArgs)`).
Truthy(v) == v # Null /\ v # Undefined /\ v # EmptyString

\* a || b on string-or-null values
OrElse(a, b) == IF Truthy(a) THEN a ELSE b

(***************************************************************************)
(* Hex strings and String.prototype.toLowerCase.                           *)
(***************************************************************************)
HexChars == {"a", "A", "b"}

LowerChar(c) == IF c = "A" THEN "a" ELSE c

toLowerCase(s) == [i \in DOMAIN s |-> LowerChar(s[i])]

HashStrings == UNION {[1..k -> HexChars] : k \in 0..MaxHashLen}

\* The files whose digests the verifier computes: the built artifact and the
\* bytes that `didc encode` prints.
Blobs == {"x", "y"}

\* computeSha256: digest('hex') is a lower-case hex string, one per content.
computeSha256(blob) == IF blob = "x" THEN <<"a", "b">> ELSE <<"b", "a">>

\* compareHashes(actualHash, expectedHash), with the case-sensitive slip a
\* comparison without toLowerCase would be.
compareHashesCaseSensitive(actualHash, expectedHash) ==
    IF ~Truthy(expectedHash)
    THEN [match |-> FALSE, status |-> "error"]
    ELSE LET match == actualHash = expectedHash
         IN  [match |-> match, status |-> IF match THEN "verified" ELSE "failed"]

compareHashes(actualHash, expectedHash) ==
    IF ~Truthy(expectedHash)
    THEN [match |-> FALSE, status |-> "error"]
    ELSE LET match == toLowerCase(actualHash) = toLowerCase(expectedHash)
         IN  [match |-> match, status |-> IF match THEN "verified" ELSE "failed"]

(***************************************************************************)
(* The outcome of `didc encode` is the environment's: it fails, or prints  *)
(* some bytes.                                                             *)
(***************************************************************************)
DidcFail == "fail"
DidcOutcomes == {DidcFail} \cup Blobs

\* computeArgHash(upgradeArgs, didFile, typeName): the digest of the encoded
\* bytes, or null when the tool throws.
computeArgHash(upgradeArgs, didc) ==
    IF didc = DidcFail THEN Null ELSE computeSha256(didc)

\* The argument check of the verifier's main: lines 191-236. Gives the pair
\* of argMatch and actualArgHash.
ArgCheckSkipping(expectedArgHash, upgradeArgs, didc) ==
    IF Truthy(expectedArgHash) /\ Truthy(upgradeArgs)
    THEN LET actualArgHash == computeArgHash(upgradeArgs, didc)
         IN  IF Truthy(actualArgHash)
             THEN [argMatch |-> toLowerCase(actualArgHash) = toLowerCase(expectedArgHash),
                   actualArgHash |-> actualArgHash]
             ELSE [argMatch |-> FALSE, actualArgHash |-> actualArgHash]
    ELSE [argMatch |-> TRUE, actualArgHash |-> Null]

ArgCheck(expectedArgHash, upgradeArgs, didc) ==
    IF Truthy(expectedArgHash)
    THEN IF Truthy(upgradeArgs)
         THEN LET actualArgHash == computeArgHash(upgradeArgs, didc)
              IN  IF Truthy(actualArgHash)
                  THEN [argMatch |-> toLowerCase(actualArgHash) = toLowerCase(expectedArgHash),
                        actualArgHash |-> actualArgHash]
                  ELSE [argMatch |-> FALSE, actualArgHash |-> actualArgHash]
         ELSE [argMatch |-> FALSE, actualArgHash |-> Null]
    ELSE [argMatch |-> TRUE, actualArgHash |-> Null]

\* const overallMatch = wasmMatch && argMatch
OverallMatchArtifactOnly(wasmMatch, argMatch) == wasmMatch

OverallMatch(wasmMatch, argMatch) == wasmMatch /\ argMatch

(***************************************************************************)
(* Decimal strings: BigInt.prototype.toString() and the digits of a        *)
(* timestamp.                                                              *)
(***************************************************************************)
Digit(d) == <<"0", "1", "2", "3", "4", "5", "6", "7", "8", "9">>[d + 1]

RECURSIVE Decimal(_)
Decimal(n) == IF n < 10 THEN <<Digit(n)>> ELSE Decimal(n \div 10) \o <<Digit(n % 10)>>

\* new Date().toISOString() at clock reading t
toISOString(t) == <<"T">> \o Decimal(t)

(***************************************************************************)
(* The state file state/verified-proposals.json. An entry is a function    *)
(* from the field names it has to JSON scalars; `proposals` is a function  *)
(* from identifier strings to entries.                                     *)
(***************************************************************************)
NoEntries == [id \in {} |-> <<>>]

DefaultState == [lastCheckedTimestamp |-> 0, proposals |-> NoEntries]

MissingFile == [kind |-> "missing", data |-> DefaultState]
CorruptFile == [kind |-> "corrupt", data |-> DefaultState]
JsonFile(state) == [kind |-> "json", data |-> state]

\* A read that throws for another reason than a missing file (EIO, EMFILE).
UnreadableFile == [kind |-> "unreadable", data |-> DefaultState]

\* A state file cut short: no JSON text, `data` is what its text still shows.
TruncatedFile(state) == [kind |-> "corrupt", data |-> state]

\* loadState, with the slip of a parser that recovers what a damaged text
\* still shows.
loadStateLenient(file) ==
    IF file.kind \in {"json", "corrupt"} THEN file.data ELSE DefaultState

\* loadState: JSON.parse(readFileSync(...)), the default when either throws
loadState(file) == IF file.kind = "json" THEN file.data ELSE DefaultState

\* { ...a, ...b }: b's own properties, undefined ones included, over a's
Spread(a, b) == [k \in DOMAIN a \cup DOMAIN b |-> IF k \in DOMAIN b THEN b[k] ELSE a[k]]

\* JSON.stringify leaves out the properties whose value is undefined and
\* writes null for the number NaN
StringifyEntry(e) ==
    [k \in {f \in DOMAIN e : e[f] # Undefined} |-> IF e[k] = NaN THEN Null ELSE e[k]]

StringifyState(state) ==
    [lastCheckedTimestamp |-> state.lastCheckedTimestamp,
     proposals |-> [id \in DOMAIN state.proposals |-> StringifyEntry(state.proposals[id])]]

\* saveState, with the slip of writing the entries under the default
\* timestamp.
saveStateResettingStamp(state) ==
    JsonFile([StringifyState(state) EXCEPT !.lastCheckedTimestamp = 0])

\* saveState: writeFileSync(STATE_FILE, JSON.stringify(state, null, 2))
saveState(state) == JsonFile(StringifyState(state))

EntryOf(state, proposalId) ==
    IF proposalId \in DOMAIN state.proposals THEN state.proposals[proposalId] ELSE NoEntries

\* The merge, with the slip of spreading the update after the timestamp.
MergedStateTimestampFirst(state, proposalId, update, t) ==
    LET merged == Spread(Spread(EntryOf(state, proposalId), [verifiedAt |-> toISOString(t)]),
                         update)
    IN  [state EXCEPT !.proposals =
            [id \in DOMAIN state.proposals \cup {proposalId} |->
                IF id = proposalId THEN merged ELSE state.proposals[id]]]

\* The merge, with the slip of building the new state from the one entry.
MergedStateOfOneEntry(state, proposalId, update, t) ==
    LET merged == Spread(Spread(EntryOf(state, proposalId), update),
                         [verifiedAt |-> toISOString(t)])
    IN  [lastCheckedTimestamp |-> state.lastCheckedTimestamp,
         proposals |-> [id \in {proposalId} |-> merged]]

\* The state updateProposalState holds after its merge, at clock reading t.
MergedState(state, proposalId, update, t) ==
    LET merged == Spread(Spread(EntryOf(state, proposalId), update),
                         [verifiedAt |-> toISOString(t)])
    IN  [state EXCEPT !.proposals =
            [id \in DOMAIN state.proposals \cup {proposalId} |->
                IF id = proposalId THEN merged ELSE state.proposals[id]]]

\* updateProposalState(proposalId, update): the file it leaves
updateProposalState(file, proposalId, update, t) ==
    saveState(MergedState(loadState(file), proposalId, update, t))

(***************************************************************************)
(* State.                                                                  *)
(***************************************************************************)
VARIABLES
    proposalJson,    \* proposal.json: readable or not, and the fields the verifier reads
    buildStepsJson,  \* build-steps.json: readable or not, and upgradeArgs
    wasmFile,        \* output/canister.wasm: present or not, and its content
    stateFile,       \* state/verified-proposals.json
    clock,           \* the wall clock new Date() reads
    ranCli,          \* the verifier command line that ran last
    exitCode,        \* the status that run exited with
    summary,         \* what that run wrote to the step summary
    call,            \* the last call of an exported pure function, its inputs and its result
    monitorKind,     \* the monitor deployed: the one reading run records or the one reading the state file
    runRecords,      \* the display titles of the verify workflow's runs, newest first
    newProposalsJson,\* new-proposals.json
    emissions,       \* the identifier lists the monitor runs emitted, in order
    upsertRuns,      \* the concurrent runs of updateProposalState: position and locals of each
    buildRun,        \* the run of the build script: its position, inputs and log
    fetchRun,        \* the run of fetch-proposal.ts: its position, what it was answered, its outputs
    resolverRun,     \* the run of extract-build-steps.ts: its position, the response, the calls made
    monitorRun       \* a run of the state-file monitor taken step by step: its position, config and loaded state

vars == <<proposalJson, buildStepsJson, wasmFile, stateFile, clock,
          ranCli, exitCode, summary, call,
          monitorKind, runRecords, newProposalsJson, emissions,
          upsertRuns, buildRun, fetchRun, resolverRun, monitorRun>>

fileVars == <<proposalJson, buildStepsJson, wasmFile>>
verifierVars == <<ranCli, exitCode, summary>>
monitorVars == <<monitorKind, runRecords, newProposalsJson, emissions>>
stageVars == <<fetchRun, resolverRun, monitorRun>>

NoCall == [fn |-> "none"]

MonitorIdle ==
    /\ monitorKind = "none"
    /\ runRecords = <<>>
    /\ newProposalsJson = <<>>
    /\ emissions = <<>>

\* The processes that call updateProposalState side by side.
StoreRuns == {1, 2}

IdleRun ==
    [pc |-> "idle", proposalId |-> Null, update |-> NoEntries, read |-> "none",
     prior |-> NoEntries, state |-> DefaultState, returned |-> NoEntries, calledAt |-> 0]

\* No run of updateProposalState under way.
StoreIdle == upsertRuns = [r \in StoreRuns |-> IdleRun]

\* The build script not started.
NoBuild == [pc |-> "none"]

BuildIdle == buildRun = NoBuild

\* Neither fetch-proposal.ts nor extract-build-steps.ts started, and no
\* monitor run under way.
NoStage == [pc |-> "none"]

StagesIdle == fetchRun = NoStage /\ resolverRun = NoStage /\ monitorRun = NoStage

(***************************************************************************)
(* The inputs of a verification run.                                       *)
(***************************************************************************)
TheProposalId == <<"7">>

OptionalHashes == {Null} \cup HashStrings

UnreadableProposal ==
    [readable |-> FALSE, proposalId |-> Null, expectedWasmHash |-> Null,
     expectedArgHash |-> Null]

\* The expected argument hash of a proposal: absent, empty, the digest of
\* either encoding, one in upper case, and the digest of neither.
ExpectedArgHashes ==
    {Null, EmptyString, computeSha256("x"), computeSha256("y"), <<"A", "b">>, <<"b", "b">>}

ProposalFiles ==
    {UnreadableProposal} \cup
    [readable : {TRUE}, proposalId : {TheProposalId},
     expectedWasmHash : OptionalHashes, expectedArgHash : ExpectedArgHashes]

UpgradeArgsLiteral == <<"(", ")">>

BuildStepsFiles ==
    {[readable |-> FALSE, upgradeArgs |-> Null]} \cup
    [readable : {TRUE}, upgradeArgs : {Null, EmptyString, UpgradeArgsLiteral}]

WasmFiles == {[exists |-> FALSE, content |-> "x"]} \cup [exists : {TRUE}, content : Blobs]

PendingEntry(t) ==
    [status |-> <<"pending">>, wasmHashMatch |-> JFalse, verifiedAt |-> toISOString(t)]

InitialStateFiles ==
    {MissingFile, CorruptFile, JsonFile(DefaultState),
     JsonFile([lastCheckedTimestamp |-> 0,
               proposals |-> [id \in {TheProposalId} |-> PendingEntry(0)]])}

\* process.env.GITHUB_RUN_ID ? parseInt(process.env.GITHUB_RUN_ID, 10) : undefined
RunIds == {Undefined, <<"4">>}

NoSummary == [kind |-> "none", overall |-> "", wasm |-> "", arg |-> "", actualArgHash |-> Null]

WasmMissingSummary ==
    [kind |-> "wasm-missing", overall |-> "", wasm |-> "", arg |-> "", actualArgHash |-> Null]

(***************************************************************************)
(* The verifier with argument verification: main of the newer              *)
(* compare-hash.ts.                                                        *)
(***************************************************************************)
VerifyResult(didc) ==
    LET actualWasmHash == computeSha256(wasmFile.content)
        expectedWasmHash == proposalJson.expectedWasmHash
        wasmMatch == compareHashes(actualWasmHash, expectedWasmHash).match
        expectedArgHash == proposalJson.expectedArgHash
        \* buildSteps?.upgradeArgs
        upgradeArgs == IF buildStepsJson.readable THEN buildStepsJson.upgradeArgs ELSE Undefined
        argCheck == ArgCheck(expectedArgHash, upgradeArgs, didc)
        argMatch == argCheck.argMatch
        overallMatch == OverallMatch(wasmMatch, argMatch)
        hasArgVerification == Truthy(expectedArgHash)
    IN  [summary |->
            [kind |-> "result",
             overall |-> IF overallMatch THEN "VERIFIED" ELSE "FAILED",
             wasm |-> IF wasmMatch THEN "MATCH"
                      ELSE IF Truthy(expectedWasmHash) THEN "MISMATCH" ELSE "CANNOT VERIFY",
             arg |-> IF hasArgVerification
                     THEN IF argMatch THEN "MATCH" ELSE "MISMATCH"
                     ELSE "",
             actualArgHash |-> argCheck.actualArgHash],
         exitCode |-> IF overallMatch THEN 0 ELSE 1]

VerifyMain ==
    /\ ranCli' = "verify"
    /\ IF ~proposalJson.readable
       THEN summary' = NoSummary /\ exitCode' = 1
       ELSE IF ~wasmFile.exists
       THEN summary' = WasmMissingSummary /\ exitCode' = 1
       ELSE \E didc \in DidcOutcomes :
               /\ summary' = VerifyResult(didc).summary
               /\ exitCode' = VerifyResult(didc).exitCode
    /\ UNCHANGED <<fileVars, stateFile, clock, call, monitorVars, upsertRuns, buildRun, stageVars>>

(***************************************************************************)
(* The verifier that records its result in the state file: main of the     *)
(* older compare-hash.ts.                                                  *)
(***************************************************************************)
RecordingResult(runId) ==
    LET actualHash == computeSha256(wasmFile.content)
        expectedHash == proposalJson.expectedWasmHash
        match == Truthy(expectedHash) /\ toLowerCase(actualHash) = toLowerCase(expectedHash)
        statusText == IF match THEN "MATCH"
                      ELSE IF Truthy(expectedHash) THEN "MISMATCH" ELSE "CANNOT VERIFY"
    IN  [summary |-> [kind |-> "result", overall |-> statusText, wasm |-> statusText,
                      arg |-> "", actualArgHash |-> Null],
         update |->
            IF match
            THEN [status |-> <<"verified">>, wasmHashMatch |-> JTrue, actualHash |-> actualHash,
                  expectedHash |-> OrElse(expectedHash, Undefined), runId |-> runId]
            ELSE IF Truthy(expectedHash)
            THEN [status |-> <<"failed">>, wasmHashMatch |-> JFalse, actualHash |-> actualHash,
                  expectedHash |-> expectedHash, runId |-> runId]
            ELSE [status |-> <<"error">>, wasmHashMatch |-> JFalse, actualHash |-> actualHash,
                  errorMessage |-> <<"Expected hash not found in proposal">>, runId |-> runId],
         exitCode |-> IF match THEN 0 ELSE IF Truthy(expectedHash) THEN 1 ELSE 0]

RecordingVerifyMain ==
    /\ ranCli' = "recording"
    /\ IF ~proposalJson.readable
       THEN summary' = NoSummary /\ exitCode' = 1 /\ stateFile' = stateFile
       ELSE IF ~wasmFile.exists
       THEN summary' = WasmMissingSummary /\ exitCode' = 1 /\ stateFile' = stateFile
       ELSE \E runId \in RunIds :
               /\ summary' = RecordingResult(runId).summary
               /\ stateFile' = updateProposalState(stateFile, proposalJson.proposalId,
                                                   RecordingResult(runId).update, clock)
               /\ exitCode' = RecordingResult(runId).exitCode
    /\ UNCHANGED <<fileVars, clock, call, monitorVars, upsertRuns, buildRun, stageVars>>

\* Time passes between runs.
Tick ==
    /\ clock < MaxClock
    /\ clock' = clock + 1
    /\ UNCHANGED <<fileVars, stateFile, verifierVars, call, monitorVars, upsertRuns, buildRun, stageVars>>

InitVerify ==
    /\ proposalJson \in ProposalFiles
    /\ buildStepsJson \in BuildStepsFiles
    /\ wasmFile \in WasmFiles
    /\ stateFile \in InitialStateFiles
    /\ clock = 0
    /\ ranCli = "none"
    /\ exitCode = -1
    /\ summary = NoSummary
    /\ call = NoCall
    /\ MonitorIdle
    /\ StoreIdle
    /\ BuildIdle
    /\ StagesIdle

NextVerify == VerifyMain \/ RecordingVerifyMain \/ Tick

SpecVerify == InitVerify /\ [][NextVerify]_vars

(***************************************************************************)
(* Claims about the hash verification command lines (SpecVerify).          *)
(***************************************************************************)
SameLetter(c, d) == c = d \/ {c, d} = {"a", "A"}

EqualIgnoringCase(s, t) ==
    /\ Len(s) = Len(t)
    /\ \A i \in 1..Len(s) : SameLetter(s[i], t[i])

Present(v) == v # Null /\ v # Undefined /\ Len(v) > 0

ArtifactHashMatched ==
    /\ Present(proposalJson.expectedWasmHash)
    /\ EqualIgnoringCase(computeSha256(wasmFile.content), proposalJson.expectedWasmHash)

ArgumentHashMatched ==
    /\ buildStepsJson.readable
    /\ Present(buildStepsJson.upgradeArgs)
    /\ Present(summary.actualArgHash)
    /\ EqualIgnoringCase(summary.actualArgHash, proposalJson.expectedArgHash)

VerifyCompleted == ranCli = "verify" /\ summary.kind = "result"

\* C1: the verifier reports the overall result as verified (the VERIFIED
\* verdict, exit status 0) only if the artifact hash matched and either no
\* argument hash is expected or the hash of the encoded argument matched.
C1_VerifiedOnlyIfBothMatch ==
    (ranCli = "verify" /\ (summary.overall = "VERIFIED" \/ exitCode = 0))
        => /\ VerifyCompleted
           /\ ArtifactHashMatched
           /\ (~Present(proposalJson.expectedArgHash) \/ ArgumentHashMatched)

\* A run that reported verified with an argument hash expected and matched.
C1_Witness ==
    /\ VerifyCompleted
    /\ summary.overall = "VERIFIED"
    /\ Present(proposalJson.expectedArgHash)
    /\ ArgumentHashMatched

\* The status a run reports: its overall verdict.
ReportedStatus ==
    IF summary.overall \in {"VERIFIED", "MATCH"} THEN "verified"
    ELSE IF summary.overall \in {"FAILED", "MISMATCH"} THEN "failed"
    ELSE IF summary.overall = "CANNOT VERIFY" THEN "error"
    ELSE "none"

RecordedStatus ==
    IF stateFile.kind = "json" /\ proposalJson.proposalId \in DOMAIN stateFile.data.proposals
    THEN stateFile.data.proposals[proposalJson.proposalId].status
    ELSE <<"none">>

\* C3: a run with the expected artifact hash absent or empty ends with the
\* status `error`, reported and (by the recording verifier) recorded; it is
\* neither `verified` nor `failed`.
C3_AbsentExpectedHashIsError ==
    (ranCli # "none" /\ summary.kind = "result" /\ ~Present(proposalJson.expectedWasmHash))
        => /\ ReportedStatus = "error"
           /\ ranCli = "recording" => RecordedStatus = <<"error">>

\* C4: the command line exits 0 only when verification fully succeeded.
C4_ExitZeroOnlyWhenVerified ==
    (ranCli # "none" /\ exitCode = 0)
        => /\ summary.kind = "result"
           /\ ArtifactHashMatched
           /\ (ranCli = "verify" =>
                  (~Present(proposalJson.expectedArgHash) \/ ArgumentHashMatched))

Range(seq) == {seq[i] : i \in DOMAIN seq}

\* Array.prototype.includes
Includes(array, x) == \E i \in DOMAIN array : array[i] = x

\* The callback of filterNewProposals, with the off-by-one slip `<=` for `<`.
KeepsProposalAboveMin(p, trackedTopics, existingRunProposalIds, minProposalId) ==
    LET idStr == Decimal(p.id)
    IN  IF p.id <= minProposalId THEN FALSE
        ELSE IF ~Includes(trackedTopics, p.topic) THEN FALSE
        ELSE IF Includes(existingRunProposalIds, idStr) THEN FALSE
        ELSE TRUE

KeepsProposal(p, trackedTopics, existingRunProposalIds, minProposalId) ==
    LET idStr == Decimal(p.id)
    IN  IF p.id < minProposalId THEN FALSE
        ELSE IF ~Includes(trackedTopics, p.topic) THEN FALSE
        ELSE IF Includes(existingRunProposalIds, idStr) THEN FALSE
        ELSE TRUE

\* proposals.filter(p => ...)
filterNewProposals(proposals, trackedTopics, existingRunProposalIds, minProposalId) ==
    SelectSeq(proposals,
              LAMBDA p : KeepsProposal(p, trackedTopics, existingRunProposalIds, minProposalId))

(***************************************************************************)
(* Repository URLs. A URL is a sequence of tokens: IcUrl stands for the    *)
(* text https://github.com/dfinity/ic, which a longer repository name      *)
(* continues ("-boundary"); the suffix tokens follow.                      *)
(***************************************************************************)
IcUrl == "https://github.com/dfinity/ic"
OtherUrl == "https://github.com/dfinity/dogecoin-canister"
NameTail == "-boundary"
GitSuffix == ".git"
Slash == "/"
TreeSuffix == "/tree/abc123"
CommitSuffix == "/commit/abc123"

Suffixes == {GitSuffix, Slash, TreeSuffix, CommitSuffix}

Front(seq) == SubSeq(seq, 1, Len(seq) - 1)
Last(seq) == seq[Len(seq)]

EndsWith(url, token) == Len(url) > 0 /\ Last(url) = token

IC_MONOREPO_URL == <<IcUrl>>

\* normalizeRepoUrl of the resolver, as a single pass that strips one suffix.
normalizeRepoUrlOnce(url) ==
    IF Len(url) > 0 /\ Last(url) \in Suffixes THEN Front(url) ELSE url

\* normalizeRepoUrl of the resolver: strips the trailing slash, .git,
\* /tree/<hash> and /commit/<hash> until none is left.
RECURSIVE normalizeRepoUrl(_)
normalizeRepoUrl(url) ==
    IF Len(url) > 0 /\ Last(url) \in Suffixes THEN normalizeRepoUrl(Front(url)) ELSE url

\* detectBuildProfile of the resolver
detectBuildProfile(repoUrl) ==
    IF normalizeRepoUrl(repoUrl) = IC_MONOREPO_URL THEN "ic-monorepo" ELSE "standard"

\* sed 's/\.git$//'
SedStripGit(url) == IF EndsWith(url, GitSuffix) THEN Front(url) ELSE url

\* sed 's:/$::'
SedStripSlash(url) == IF EndsWith(url, Slash) THEN Front(url) ELSE url

\* normalized=$(echo "$1" | sed 's/\.git$//' | sed 's:/$::')
ShellNormalized(url) == SedStripSlash(SedStripGit(url))

\* detect_profile of the build script
detect_profile(url) ==
    IF ShellNormalized(url) = <<IcUrl>> THEN "ic-monorepo" ELSE "standard"

\* BUILD_PROFILE of the build script: the plan's buildProfile, or, when the
\* plan has none, detect_profile "$REPO_URL".
BUILD_PROFILE(planProfile, url) ==
    IF planProfile # "" THEN planProfile ELSE detect_profile(url)

\* IS_IC_MONOREPO of the build script with the targeted build:
\* [[ "$REPO_URL" == *"github.com/dfinity/ic"* ]]
IS_IC_MONOREPO(url) == \E i \in DOMAIN url : url[i] = IcUrl

(***************************************************************************)
(* Calls of the exported functions and of the scripts' classification, on  *)
(* inputs drawn from bounded sets. Each behaviour makes one call.          *)
(***************************************************************************)
FilterIds == 9..11
Topics == {17, 5}

ProposalInfos == [id : FilterIds, topic : Topics]

HasDistinctIds(proposals) ==
    \A i, j \in DOMAIN proposals : i # j => proposals[i].id # proposals[j].id

ProposalLists(infos) ==
    {ps \in UNION {[1..n -> infos] : n \in 0..MaxProposals} : HasDistinctIds(ps)}

TopicLists == {<<>>, <<17>>, <<5, 17>>}

\* Lists of identifier strings: none, "10", "11" and "9", "09", "10" and "11".
ExistingIdLists ==
    {<<>>,
     << <<"1", "0">> >>,
     << <<"1", "1">>, <<"9">> >>,
     << <<"0", "9">> >>,
     << <<"1", "0">>, <<"1", "1">> >>}

RepoUrls ==
    {<<base>> \o tail \o sufs :
        base \in {IcUrl, OtherUrl},
        tail \in {<<>>, <<NameTail>>},
        sufs \in UNION {[1..n -> Suffixes] : n \in 0..MaxSuffixes}}

CallCompareHashes ==
    /\ call = NoCall
    /\ \E actual \in HashStrings, expected \in OptionalHashes :
          call' = [fn |-> "compareHashes", actual |-> actual, expected |-> expected,
                   result |-> compareHashes(actual, expected)]
    /\ UNCHANGED <<fileVars, stateFile, clock, verifierVars, monitorVars, upsertRuns, buildRun, stageVars>>

CallFilterNewProposals ==
    /\ call = NoCall
    /\ \E proposals \in ProposalLists(ProposalInfos), trackedTopics \in TopicLists,
          existing \in ExistingIdLists, minId \in FilterIds :
          call' = [fn |-> "filterNewProposals", proposals |-> proposals,
                   trackedTopics |-> trackedTopics, existing |-> existing, minId |-> minId,
                   result |-> filterNewProposals(proposals, trackedTopics, existing, minId)]
    /\ UNCHANGED <<fileVars, stateFile, clock, verifierVars, monitorVars, upsertRuns, buildRun, stageVars>>

CallNormalizeRepoUrl ==
    /\ call = NoCall
    /\ \E url \in RepoUrls :
          call' = [fn |-> "normalizeRepoUrl", url |-> url,
                   result |-> normalizeRepoUrl(url),
                   again |-> normalizeRepoUrl(normalizeRepoUrl(url))]
    /\ UNCHANGED <<fileVars, stateFile, clock, verifierVars, monitorVars, upsertRuns, buildRun, stageVars>>

CallDetectBuildProfile ==
    /\ call = NoCall
    /\ \E url \in RepoUrls :
          call' = [fn |-> "detectBuildProfile", url |-> url,
                   result |-> detectBuildProfile(url)]
    /\ UNCHANGED <<fileVars, stateFile, clock, verifierVars, monitorVars, upsertRuns, buildRun, stageVars>>

\* The build script settles BUILD_PROFILE for the plan's repoUrl.
ScriptBuildProfile ==
    /\ call = NoCall
    /\ \E url \in RepoUrls, planProfile \in {"", "ic-monorepo", "standard"} :
          call' = [fn |-> "BUILD_PROFILE", url |-> url, planProfile |-> planProfile,
                   normalized |-> ShellNormalized(url),
                   result |-> BUILD_PROFILE(planProfile, url)]
    /\ UNCHANGED <<fileVars, stateFile, clock, verifierVars, monitorVars, upsertRuns, buildRun, stageVars>>

\* The build script with the targeted build settles IS_IC_MONOREPO.
ScriptIsIcMonorepo ==
    /\ call = NoCall
    /\ \E url \in RepoUrls :
          call' = [fn |-> "IS_IC_MONOREPO", url |-> url,
                   result |-> IF IS_IC_MONOREPO(url) THEN "ic-monorepo" ELSE "standard"]
    /\ UNCHANGED <<fileVars, stateFile, clock, verifierVars, monitorVars, upsertRuns, buildRun, stageVars>>

\* The StateData values a save is given: the entries the monitor, the
\* verifier and the update-state command line build in memory, the
\* verifier's without GITHUB_RUN_ID (runId: undefined) and the command
\* line's for a run id that is no number (runId: NaN) included.
OtherProposalId == <<"8">>

SomeProposalIds == {TheProposalId, OtherProposalId}

StoredEntries ==
    {PendingEntry(0),
     [status |-> <<"verified">>, wasmHashMatch |-> JTrue, verifiedAt |-> toISOString(1),
      actualHash |-> computeSha256("x"), expectedHash |-> computeSha256("x"),
      runId |-> <<"4">>],
     [status |-> <<"verified">>, wasmHashMatch |-> JTrue, verifiedAt |-> toISOString(1),
      actualHash |-> computeSha256("x"), expectedHash |-> computeSha256("x"),
      runId |-> Undefined],
     [status |-> <<"error">>, wasmHashMatch |-> JFalse, verifiedAt |-> toISOString(1),
      runId |-> NaN]}

StateDatas ==
    UNION {[lastCheckedTimestamp : {0, 1}, proposals : [ids -> StoredEntries]] :
              ids \in SUBSET SomeProposalIds}

\* saveState(state) and then loadState(), nothing written in between.
CallSaveThenLoad ==
    /\ call = NoCall
    /\ \E state \in StateDatas :
          /\ stateFile' = saveState(state)
          /\ call' = [fn |-> "saveState", state |-> state, loaded |-> loadState(stateFile')]
    /\ UNCHANGED <<fileVars, clock, verifierVars, monitorVars, upsertRuns, buildRun, stageVars>>

InitPure ==
    /\ proposalJson = UnreadableProposal
    /\ buildStepsJson = [readable |-> FALSE, upgradeArgs |-> Null]
    /\ wasmFile = [exists |-> FALSE, content |-> "x"]
    /\ stateFile = MissingFile
    /\ clock = 0
    /\ ranCli = "none"
    /\ exitCode = -1
    /\ summary = NoSummary
    /\ call = NoCall
    /\ MonitorIdle
    /\ StoreIdle
    /\ BuildIdle
    /\ StagesIdle

NextPure ==
    \/ CallCompareHashes
    \/ CallFilterNewProposals
    \/ CallNormalizeRepoUrl
    \/ CallDetectBuildProfile
    \/ ScriptBuildProfile
    \/ ScriptIsIcMonorepo
    \/ CallSaveThenLoad

SpecPure == InitPure /\ [][NextPure]_vars

(***************************************************************************)
(* The proposal monitor.                                                   *)
(***************************************************************************)
MIN_PROPOSAL_ID == 139900
TRACKED_TOPICS == <<17>>
RUN_LIST_LIMIT == 200
LIST_PROPOSALS_LIMIT == 100

\* What list_proposals can return to a monitor run: the most recent
\* proposals, identifiers around the minimum.
MonitorInfos == [id : (MIN_PROPOSAL_ID - 1)..(MIN_PROPOSAL_ID + 1), topic : Topics]

Take(seq, n) == SubSeq(seq, 1, IF Len(seq) < n THEN Len(seq) ELSE n)

listProposals(governance, limit) == Take(governance, limit)

\* The display title of the run the workflow starts for an identifier.
TitlePrefix == "Verify Proposal #"
DisplayTitle(idStr) == <<TitlePrefix>> \o idStr

IsDigit(c) == c \in {Digit(d) : d \in 0..9}

\* The digits \d+ matches at the start of a text.
RECURSIVE LeadingDigits(_)
LeadingDigits(text) ==
    IF Len(text) > 0 /\ IsDigit(Head(text))
    THEN <<Head(text)>> \o LeadingDigits(Tail(text))
    ELSE <<>>

\* run.displayTitle?.match(/Verify Proposal #(\d+)/): the identifier, or
\* nothing
TitleMatch(title) ==
    IF Len(title) > 0 /\ Head(title) = TitlePrefix /\ Len(LeadingDigits(Tail(title))) > 0
    THEN <<LeadingDigits(Tail(title))>>
    ELSE <<>>

RECURSIVE ProposalIdsOfRuns(_)
ProposalIdsOfRuns(runs) ==
    IF Len(runs) = 0 THEN <<>>
    ELSE TitleMatch(Head(runs)) \o ProposalIdsOfRuns(Tail(runs))

\* getExistingWorkflowRuns: the identifiers in the titles of the newest
\* RUN_LIST_LIMIT runs; the empty list when gh or the parse throws.
getExistingWorkflowRuns(runs, lookup) ==
    IF lookup = "ok" THEN ProposalIdsOfRuns(Take(runs, RUN_LIST_LIMIT)) ELSE <<>>

\* The verify workflow starts one run per emitted identifier.
Dispatched(runs, proposalIds) ==
    [i \in 1..Len(proposalIds) |-> DisplayTitle(proposalIds[Len(proposalIds) + 1 - i])] \o runs

IdStrings(proposals) == [i \in DOMAIN proposals |-> Decimal(proposals[i].id)]

\* main of the monitor that consults the run records
MonitorMain ==
    /\ monitorKind = "runs"
    /\ Len(emissions) < MaxMonitorRuns
    /\ \E governance \in ProposalLists(MonitorInfos), lookup \in {"ok", "fail"} :
          LET proposals == listProposals(governance, LIST_PROPOSALS_LIMIT)
              existingRuns == getExistingWorkflowRuns(runRecords, lookup)
              newProposals == filterNewProposals(proposals, TRACKED_TOPICS, existingRuns,
                                                 MIN_PROPOSAL_ID)
              proposalIds == IdStrings(newProposals)
          IN  IF Len(newProposals) = 0
              THEN UNCHANGED <<newProposalsJson, emissions, runRecords>>
              ELSE /\ newProposalsJson' = proposalIds
                   /\ emissions' = Append(emissions, proposalIds)
                   /\ runRecords' = Dispatched(runRecords, proposalIds)
    /\ UNCHANGED <<fileVars, stateFile, clock, verifierVars, call, monitorKind, upsertRuns, buildRun, stageVars>>

\* config/tracking.json
TrackingConfigs ==
    {[readable |-> FALSE, enabled |-> FALSE, topics |-> <<>>]} \cup
    [readable : {TRUE}, enabled : BOOLEAN, topics : {TRACKED_TOPICS}]

\* The filter of the monitor that consults the state file.
IsUntracked(p, config, state) ==
    IF ~Includes(config.topics, p.topic) THEN FALSE
    ELSE IF Decimal(p.id) \in DOMAIN state.proposals THEN FALSE
    ELSE TRUE

\* for (const p of newProposals) state.proposals[p.id.toString()] = {pending}
MarkedPending(state, proposalIds, t) ==
    [state EXCEPT !.proposals =
        [id \in DOMAIN state.proposals \cup Range(proposalIds) |->
            IF id \in Range(proposalIds) THEN PendingEntry(t) ELSE state.proposals[id]]]

\* main of the monitor that consults the state file
MonitorStateMain ==
    /\ monitorKind = "state"
    /\ Len(emissions) < MaxMonitorRuns
    /\ \E governance \in ProposalLists(MonitorInfos), config \in TrackingConfigs :
          LET state == loadState(stateFile)
              proposals == listProposals(governance, LIST_PROPOSALS_LIMIT)
              newProposals == SelectSeq(proposals, LAMBDA p : IsUntracked(p, config, state))
              proposalIds == IdStrings(newProposals)
          IN  IF ~config.readable \/ ~config.enabled
              THEN UNCHANGED <<stateFile, newProposalsJson, emissions, runRecords>>
              ELSE IF Len(newProposals) = 0
              THEN /\ stateFile' = saveState([state EXCEPT !.lastCheckedTimestamp = clock])
                   /\ UNCHANGED <<newProposalsJson, emissions, runRecords>>
              ELSE /\ stateFile' = saveState([MarkedPending(state, proposalIds, clock)
                                                 EXCEPT !.lastCheckedTimestamp = clock])
                   /\ newProposalsJson' = proposalIds
                   /\ emissions' = Append(emissions, proposalIds)
                   /\ runRecords' = Dispatched(runRecords, proposalIds)
    /\ UNCHANGED <<fileVars, clock, verifierVars, call, monitorKind, upsertRuns, buildRun, stageVars>>

InitMonitor ==
    /\ proposalJson = UnreadableProposal
    /\ buildStepsJson = [readable |-> FALSE, upgradeArgs |-> Null]
    /\ wasmFile = [exists |-> FALSE, content |-> "x"]
    /\ stateFile \in {MissingFile, CorruptFile, JsonFile(DefaultState)}
    /\ clock = 0
    /\ ranCli = "none"
    /\ exitCode = -1
    /\ summary = NoSummary
    /\ call = NoCall
    /\ monitorKind \in {"runs", "state"}
    /\ runRecords = <<>>
    /\ newProposalsJson = <<>>
    /\ emissions = <<>>
    /\ StoreIdle
    /\ BuildIdle
    /\ StagesIdle

NextMonitor == MonitorMain \/ MonitorStateMain \/ Tick

SpecMonitor == InitMonitor /\ [][NextMonitor]_vars

(***************************************************************************)
(* Claims about the monitor (SpecMonitor).                                 *)
(***************************************************************************)
\* C7: an identifier that a monitor run emitted is not emitted again, by
\* that run or a later one.
C7_NeverEmittedTwice ==
    /\ \A i, j \in DOMAIN emissions : i < j => Range(emissions[i]) \cap Range(emissions[j]) = {}
    /\ \A i \in DOMAIN emissions :
          \A k, l \in DOMAIN emissions[i] : k # l => emissions[i][k] # emissions[i][l]

(***************************************************************************)
(* Claims about the exported functions and the classification (SpecPure).  *)
(***************************************************************************)
\* C2: compareHashes gives {match: true, status: verified} exactly when the
\* expected hash is present and equals the actual one ignoring letter case,
\* {false, failed} when it is present and differs, {false, error} when it
\* is null or empty.
C2_CompareHashesThreeWay ==
    call.fn = "compareHashes" =>
        LET equal == Present(call.expected) /\ EqualIgnoringCase(call.actual, call.expected)
        IN  /\ call.result = [match |-> TRUE, status |-> "verified"] <=> equal
            /\ (Present(call.expected) /\ ~equal)
                  => call.result = [match |-> FALSE, status |-> "failed"]
            /\ ~Present(call.expected)
                  => call.result = [match |-> FALSE, status |-> "error"]

\* A call whose hashes differ in letter case only, and match.
C2_Witness ==
    /\ call.fn = "compareHashes"
    /\ call.actual # call.expected
    /\ Len(call.actual) = MaxHashLen
    /\ call.result.match

\* The positions of the proposals the filter is to return.
WantedPositions(proposals, trackedTopics, dispatchedIds, minId) ==
    {i \in DOMAIN proposals :
        /\ proposals[i].topic \in Range(trackedTopics)
        /\ proposals[i].id >= minId
        /\ \A k \in DOMAIN dispatchedIds : dispatchedIds[k] # Decimal(proposals[i].id)}

IsPlanUrl(url) == normalizeRepoUrl(url) = url

\* C8: a URL has the large-monorepo profile if and only if its normalized
\* form is the canonical URL: at the resolver on every URL, and on the
\* normalized URL of the build plan at every place of the build scripts
\* that decides monorepo-specific behaviour.
C8_ExactMatchEverywhere ==
    /\ call.fn = "detectBuildProfile"
          => (call.result = "ic-monorepo" <=> normalizeRepoUrl(call.url) = IC_MONOREPO_URL)
    /\ (/\ \/ call.fn = "IS_IC_MONOREPO"
           \/ (call.fn = "BUILD_PROFILE" /\ call.planProfile = "")
        /\ IsPlanUrl(call.url))
          => (call.result = "ic-monorepo" <=> call.url = IC_MONOREPO_URL)

ListedTails ==
    {<<>>, <<Slash>>, <<GitSuffix>>, <<GitSuffix, Slash>>, <<TreeSuffix>>, <<CommitSuffix>>}

BaseOf(url) == SelectSeq(url, LAMBDA token : token \notin Suffixes)

IsListedShape(url) == \E tail \in ListedTails : url = BaseOf(url) \o tail

\* C10: on each listed shape normalize returns the base, and the build
\* script's normalization gives what normalize gives.
C10_ShellNormalizationAgrees ==
    /\ (call.fn = "normalizeRepoUrl" /\ IsListedShape(call.url))
          => call.result = BaseOf(call.url)
    /\ (call.fn = "BUILD_PROFILE" /\ IsListedShape(call.url))
          => call.normalized = normalizeRepoUrl(call.url)

(***************************************************************************)
(* The state store under concurrent runs. Each run is a process that calls *)
(* updateProposalState once: the update-state command line, the verifier,  *)
(* or a caller of the exported function. The read, the merge and the       *)
(* full-file write of one run are steps the other run's steps interleave   *)
(* with.                                                                   *)
(***************************************************************************)
\* parseInt(text, 10): the number the leading digits spell, NaN without one
parseInt(text) == IF Len(LeadingDigits(text)) > 0 THEN LeadingDigits(text) ELSE NaN

TrueText == <<"t", "r", "u", "e">>
FalseText == <<"f", "a", "l", "s", "e">>

\* The update main of update-state.ts builds from <status> [wasmHashMatch]
\* [runId]; an argument that is not given is undefined.
UpdateOfArgs(status, wasmHashMatch, runId) ==
    LET withStatus == [status |-> status]
        withMatch == IF wasmHashMatch # Undefined
                     THEN Spread(withStatus,
                                 [wasmHashMatch |-> IF wasmHashMatch = TrueText
                                                    THEN JTrue ELSE JFalse])
                     ELSE withStatus
    IN  IF runId # Undefined
        THEN Spread(withMatch, [runId |-> parseInt(runId)])
        ELSE withMatch

\* Command lines of update-state.ts.
CliUpdates ==
    {UpdateOfArgs(<<"verified">>, TrueText, <<"4">>),
     UpdateOfArgs(<<"failed">>, Undefined, Undefined),
     UpdateOfArgs(<<"error">>, FalseText, <<"a", "b", "c">>),
     UpdateOfArgs(<<"pending">>, FalseText, Undefined),
     UpdateOfArgs(<<"verified">>, FalseText, Undefined)}

\* The updates the verifier passes: a match without GITHUB_RUN_ID, and an
\* absent expected hash.
VerifierUpdates ==
    {[status |-> <<"verified">>, wasmHashMatch |-> JTrue, actualHash |-> computeSha256("x"),
      expectedHash |-> computeSha256("x"), runId |-> Undefined],
     [status |-> <<"error">>, wasmHashMatch |-> JFalse, actualHash |-> computeSha256("x"),
      errorMessage |-> <<"Expected hash not found in proposal">>, runId |-> <<"4">>]}

\* An update of a caller of the exported function that supplies a timestamp.
CallerUpdates == {[status |-> <<"verified">>, verifiedAt |-> <<"T", "o", "l", "d">>]}

StoreUpdates == CliUpdates \cup VerifierUpdates \cup CallerUpdates

StoreIds == SomeProposalIds

TrackedState ==
    [lastCheckedTimestamp |-> 1,
     proposals |-> [id \in {TheProposalId} |->
                       Spread(PendingEntry(0), [expectedHash |-> computeSha256("y")])]]

StoreFiles ==
    {MissingFile, JsonFile(DefaultState), JsonFile(TrackedState), TruncatedFile(TrackedState)}

\* const state = loadState(): the read gives the file, or throws.
UpsertLoad(r) ==
    /\ upsertRuns[r].pc = "idle"
    /\ \E proposalId \in StoreIds, update \in StoreUpdates, outcome \in {"ok", "throws"} :
          LET file == IF outcome = "throws" THEN UnreadableFile ELSE stateFile
              state == loadState(file)
          IN  upsertRuns' = [upsertRuns EXCEPT ![r] =
                  [pc |-> "loaded", proposalId |-> proposalId, update |-> update,
                   read |-> IF file.kind = "json" THEN "ok" ELSE "throws",
                   prior |-> EntryOf(state, proposalId), state |-> state,
                   returned |-> NoEntries, calledAt |-> clock]]
    /\ UNCHANGED <<fileVars, stateFile, clock, verifierVars, call, monitorVars, buildRun, stageVars>>

\* state.proposals[proposalId] = { ...prior, ...update, verifiedAt: now }
UpsertMerge(r) ==
    /\ upsertRuns[r].pc = "loaded"
    /\ upsertRuns' = [upsertRuns EXCEPT
          ![r].pc = "merged",
          ![r].state = MergedState(upsertRuns[r].state, upsertRuns[r].proposalId,
                                   upsertRuns[r].update, clock)]
    /\ UNCHANGED <<fileVars, stateFile, clock, verifierVars, call, monitorVars, buildRun, stageVars>>

\* saveState(state); return state.proposals[proposalId]
UpsertSave(r) ==
    /\ upsertRuns[r].pc = "merged"
    /\ stateFile' = saveState(upsertRuns[r].state)
    /\ upsertRuns' = [upsertRuns EXCEPT
          ![r].pc = "done",
          ![r].returned = upsertRuns[r].state.proposals[upsertRuns[r].proposalId]]
    /\ UNCHANGED <<fileVars, clock, verifierVars, call, monitorVars, buildRun, stageVars>>

InitStore ==
    /\ proposalJson = UnreadableProposal
    /\ buildStepsJson = [readable |-> FALSE, upgradeArgs |-> Null]
    /\ wasmFile = [exists |-> FALSE, content |-> "x"]
    /\ stateFile \in StoreFiles
    /\ clock = 0
    /\ ranCli = "none"
    /\ exitCode = -1
    /\ summary = NoSummary
    /\ call = NoCall
    /\ MonitorIdle
    /\ StoreIdle
    /\ BuildIdle
    /\ StagesIdle

NextStore ==
    \/ \E r \in StoreRuns : UpsertLoad(r)
    \/ \E r \in StoreRuns : UpsertMerge(r)
    \/ \E r \in StoreRuns : UpsertSave(r)
    \/ Tick

SpecStore == InitStore /\ [][NextStore]_vars

(***************************************************************************)
(* The life of an entry: a run of the monitor that keeps the state file    *)
(* selects proposals, and the verifier runs for a proposal.                *)
(***************************************************************************)
\* proposal.json of a run the workflow starts for the first tracked proposal.
LifecycleProposals ==
    [readable : {TRUE}, proposalId : {Decimal(MIN_PROPOSAL_ID)},
     expectedWasmHash : {Null, computeSha256("x"), computeSha256("y")},
     expectedArgHash : {Null}]

InitLifecycle ==
    /\ proposalJson \in LifecycleProposals
    /\ buildStepsJson = [readable |-> FALSE, upgradeArgs |-> Null]
    /\ wasmFile \in WasmFiles
    /\ stateFile \in {MissingFile, JsonFile(DefaultState)}
    /\ clock = 0
    /\ ranCli = "none"
    /\ exitCode = -1
    /\ summary = NoSummary
    /\ call = NoCall
    /\ monitorKind = "state"
    /\ runRecords = <<>>
    /\ newProposalsJson = <<>>
    /\ emissions = <<>>
    /\ StoreIdle
    /\ BuildIdle
    /\ StagesIdle

NextLifecycle ==
    \/ MonitorStateMain
    \/ VerifyMain
    \/ RecordingVerifyMain
    \/ Tick

SpecLifecycle == InitLifecycle /\ [][NextLifecycle]_vars

(***************************************************************************)
(* The build scripts: the one with the targeted Bazel build and the one    *)
(* with the build profiles. A run is the script's position, its inputs,    *)
(* its shell variables and the log of the build commands it ran with their *)
(* exit statuses.                                                          *)
(***************************************************************************)
BuildCommands == {"cmdA", "cmdB"}

\* .steps of build-steps.json
StepLists == UNION {[1..n -> BuildCommands] : n \in 0..MaxSteps}

\* .repoUrl of build-steps.json
BuildUrls == {<<IcUrl>>, <<IcUrl, NameTail>>, <<OtherUrl>>}

\* publish/canisters/BUILD.bazel of the checkout: absent; without a line for
\* the artifact's file name; with the line "name": "//label"; with a line
\* for the name whose value is no quoted label.
BazelFiles == {"absent", "unmapped", "mapped", "unparsed"}

BazelLabel == "//rs/nns/governance:governance-canister"
UnparsedLine == "\"governance-canister.wasm.gz\": GOVERNANCE,"

\* grep -E "\"$WASM_FILENAME\"\s*:" | sed -E 's/.*"[^"]+"\s*:\s*"([^"]+)".*/\1/'
\* | head -1, || true: sed prints a line it cannot rewrite as it is.
GrepSedHead(bazelFile) ==
    IF bazelFile = "mapped" THEN BazelLabel
    ELSE IF bazelFile = "unparsed" THEN UnparsedLine
    ELSE ""

\* BAZEL_TARGET after lines 44-66 of the script with the targeted build
BAZEL_TARGET(url, bazelFile) ==
    IF IS_IC_MONOREPO(url) /\ bazelFile # "absent" THEN GrepSedHead(bazelFile) ELSE ""

\* if [ "$TARGETED_BUILD_SUCCESS" = false ], with the slip of running the
\* full build whatever the targeted build gave.
RunsFullBuildAlways(targetedBuildSuccess) == TRUE

RunsFullBuild(targetedBuildSuccess) == targetedBuildSuccess = FALSE

\* Whether a failing full-build command is absorbed: the commands run under
\* `su - builder -c ... || { warning }` when the script runs as root (and,
\* in the script with profiles, the profile is ic-monorepo); otherwise by
\* eval "$step" under set -e.
RunsAsBuilder(run) ==
    IF run.script = "targeted" THEN run.isRoot
    ELSE run.profile = "ic-monorepo" /\ run.isRoot

\* What the locator finds in the checkout after the build: the file at the
\* plan's wasmOutputPath, some *.wasm file anywhere in the tree, the file at
\* the path derived from the Bazel label, a file of the artifact's name
\* under bazel-bin.
Trees == [declared : BOOLEAN, candidates : BOOLEAN,
          bazelOutput : BOOLEAN, bazelFound : BOOLEAN]

NoTree == [declared |-> FALSE, candidates |-> FALSE,
           bazelOutput |-> FALSE, bazelFound |-> FALSE]

\* The file the locator copies after a successful targeted build ("" when
\* it exits 1): [ -f "$BAZEL_OUTPUT" ], else find bazel-bin -name | head -1.
LocateTargeted(tree, outputExists) ==
    IF tree.bazelOutput THEN "bazel-output"
    ELSE IF tree.bazelFound THEN "bazel-found"
    ELSE ""

\* [ -f "$WASM_OUTPUT_PATH" ], with the slip of accepting the file a former
\* run left at ../output/canister.wasm.
LocateFullOrLeftOver(tree, outputExists) ==
    IF tree.declared THEN "declared"
    ELSE IF outputExists THEN "left-over"
    ELSE ""

\* The file the locator copies after the full build ("" when it exits 1):
\* [ -f "$WASM_OUTPUT_PATH" ]; the find of *.wasm files is printed only.
LocateFull(tree, outputExists) == IF tree.declared THEN "declared" ELSE ""

\* A string and a number of a JSON document.
JString(text) == [type |-> "string", text |-> text]
JNumber(text) == [type |-> "number", text |-> text]

\* steps.forEach(s => console.log(s)): one line for each element.
StepLines(steps) == [i \in DOMAIN steps |-> steps[i].text]

NoBuildSteps == [readable |-> FALSE, upgradeArgs |-> Null]

CommitRef == <<"0123456789abcdef0123456789abcdef01234567">>
DeclaredPath == <<"artifacts/canisters/governance-canister.wasm.gz">>

\* build-steps.json as the build script finds it: absent, or a plan; its
\* buildProfile is "" when the plan has none.
BuildPlanFiles ==
    {NoBuildSteps} \cup
    [readable : {TRUE}, upgradeArgs : {Null}, commitHash : {CommitRef},
     repoUrl : BuildUrls, buildProfile : {"", "ic-monorepo", "standard"},
     steps : {[i \in DOMAIN l |-> JString(l[i])] : l \in StepLists},
     wasmOutputPath : {DeclaredPath}]

\* proposal.json as the build script finds it: the script tests that the
\* file is there and reads nothing of it.
SomeProposal ==
    [readable |-> TRUE, proposalId |-> TheProposalId,
     expectedWasmHash |-> computeSha256("x"), expectedArgHash |-> Null]

\* output/canister.wasm before the script runs: absent, or left by a former
\* run with another content than the artifact this run builds ("x").
LeftOverWasm == [exists |-> TRUE, content |-> "y"]

BuildStarts ==
    [script : {"targeted", "profiled"}, repoUrl : {<<>>},
     planProfile : {""}, isRoot : BOOLEAN,
     bazelFile : BazelFiles, steps : {<<>>},
     pc : {"start"}, profile : {""}, bazelTarget : {""},
     targetedBuildSuccess : {FALSE}, fullEntered : {FALSE}, next : {1},
     log : {<<>>}, tree : {NoTree}, copiedFrom : {""},
     exit : {-1}, exitedIn : {""}]

nonBuildVars ==
    <<fileVars, stateFile, clock, verifierVars, call, monitorVars, upsertRuns, stageVars>>

\* if [ ! -f "build-steps.json" ] ... if [ ! -f "proposal.json" ], with the
\* slip of leaving out the second test.
RequiredFilesFoundPlanOnly(buildSteps, proposal) == buildSteps.readable

\* if [ ! -f "build-steps.json" ] ... exit 1; if [ ! -f "proposal.json" ]
\* ... exit 1
RequiredFilesFound(buildSteps, proposal) == buildSteps.readable /\ proposal.readable

\* The required file checks, then REPO_URL=$(node -e ...) and the like
\* under set -e.
BuildCheckFiles ==
    /\ buildRun.pc = "start"
    /\ buildRun' = IF RequiredFilesFound(buildStepsJson, proposalJson)
                   THEN [buildRun EXCEPT
                            !.pc = "checked",
                            !.repoUrl = buildStepsJson.repoUrl,
                            !.planProfile = buildStepsJson.buildProfile,
                            !.steps = StepLines(buildStepsJson.steps)]
                   ELSE [buildRun EXCEPT !.pc = "exited", !.exit = 1, !.exitedIn = "files"]
    /\ UNCHANGED nonBuildVars

\* git clone, git fetch, git checkout under set -e
BuildClone ==
    /\ buildRun.pc = "checked"
    /\ \E cloned \in BOOLEAN :
          buildRun' = IF cloned
                      THEN [buildRun EXCEPT !.pc = "cloned"]
                      ELSE [buildRun EXCEPT !.pc = "exited", !.exit = 1, !.exitedIn = "clone"]
    /\ UNCHANGED nonBuildVars

\* The classification and the target: IS_IC_MONOREPO and BAZEL_TARGET of
\* the one script, BUILD_PROFILE of the other.
BuildResolveTarget ==
    /\ buildRun.pc = "cloned"
    /\ buildRun' =
          IF buildRun.script = "targeted"
          THEN [buildRun EXCEPT
                   !.pc = "resolved",
                   !.profile = IF IS_IC_MONOREPO(buildRun.repoUrl)
                               THEN "ic-monorepo" ELSE "standard",
                   !.bazelTarget = BAZEL_TARGET(buildRun.repoUrl, buildRun.bazelFile)]
          ELSE [buildRun EXCEPT
                   !.pc = "resolved",
                   !.profile = BUILD_PROFILE(buildRun.planProfile, buildRun.repoUrl)]
    /\ UNCHANGED nonBuildVars

\* The exit statuses `bazel build <target>` can give: it builds a label or
\* fails, and fails on a text that is no label.
BazelStatuses(target) == IF target = BazelLabel THEN {0, 1} ELSE {1}

\* if [ -n "$BAZEL_TARGET" ]; then if <bazel build>; then
\* TARGETED_BUILD_SUCCESS=true; fi; fi
BuildTargeted ==
    /\ buildRun.pc = "resolved"
    /\ IF buildRun.bazelTarget # ""
       THEN \E status \in BazelStatuses(buildRun.bazelTarget) :
               buildRun' = [buildRun EXCEPT
                   !.pc = "fallback",
                   !.targetedBuildSuccess = (status = 0),
                   !.log = Append(@, [kind |-> "targeted", command |-> buildRun.bazelTarget,
                                      status |-> status])]
       ELSE buildRun' = [buildRun EXCEPT !.pc = "fallback"]
    /\ UNCHANGED nonBuildVars

\* if [ "$TARGETED_BUILD_SUCCESS" = false ]; then ... STEPS=$(node ...)
BuildFullStart ==
    /\ buildRun.pc = "fallback"
    /\ buildRun' = IF RunsFullBuild(buildRun.targetedBuildSuccess)
                   THEN [buildRun EXCEPT !.pc = "full", !.fullEntered = TRUE]
                   ELSE [buildRun EXCEPT !.pc = "locate"]
    /\ UNCHANGED nonBuildVars

\* One turn of the while loop over $STEPS.
BuildFullStep ==
    /\ buildRun.pc = "full"
    /\ buildRun.next <= Len(buildRun.steps)
    /\ \E status \in {0, 1} :
          LET logged == Append(buildRun.log,
                               [kind |-> "full", command |-> buildRun.steps[buildRun.next],
                                status |-> status])
          IN  buildRun' =
                 IF status # 0 /\ ~RunsAsBuilder(buildRun)
                 THEN [buildRun EXCEPT !.log = logged, !.pc = "exited", !.exit = 1,
                                       !.exitedIn = "full"]
                 ELSE [buildRun EXCEPT !.log = logged, !.next = @ + 1]
    /\ UNCHANGED nonBuildVars

\* done <<< "$STEPS"
BuildFullDone ==
    /\ buildRun.pc = "full"
    /\ buildRun.next > Len(buildRun.steps)
    /\ buildRun' = [buildRun EXCEPT !.pc = "locate"]
    /\ UNCHANGED nonBuildVars

\* mkdir -p ../output and the copy of the artifact to
\* ../output/canister.wasm under set -e, or exit 1; then exit 0.
BuildLocate ==
    /\ buildRun.pc = "locate"
    /\ \E tree \in Trees, cpStatus \in {0, 1} :
          LET source == IF buildRun.targetedBuildSuccess
                        THEN LocateTargeted(tree, wasmFile.exists)
                        ELSE LocateFull(tree, wasmFile.exists)
          IN  IF source = ""
              THEN /\ buildRun' = [buildRun EXCEPT !.tree = tree, !.pc = "exited",
                                                   !.exit = 1, !.exitedIn = "locate"]
                   /\ wasmFile' = wasmFile
              ELSE IF cpStatus # 0
              THEN /\ buildRun' = [buildRun EXCEPT !.tree = tree, !.pc = "exited",
                                                   !.exit = 1, !.exitedIn = "copy"]
                   /\ wasmFile' = wasmFile
              ELSE /\ buildRun' = [buildRun EXCEPT !.tree = tree, !.copiedFrom = source,
                                                   !.pc = "done", !.exit = 0]
                   /\ wasmFile' = [exists |-> TRUE, content |-> "x"]
    /\ UNCHANGED <<proposalJson, buildStepsJson, stateFile, clock, verifierVars, call,
                   monitorVars, upsertRuns, stageVars>>

InitBuild ==
    /\ proposalJson \in {UnreadableProposal, SomeProposal}
    /\ buildStepsJson \in BuildPlanFiles
    /\ wasmFile \in {[exists |-> FALSE, content |-> "x"], LeftOverWasm}
    /\ stateFile = MissingFile
    /\ clock = 0
    /\ ranCli = "none"
    /\ exitCode = -1
    /\ summary = NoSummary
    /\ call = NoCall
    /\ MonitorIdle
    /\ StoreIdle
    /\ buildRun \in BuildStarts
    /\ StagesIdle

NextBuild ==
    \/ BuildCheckFiles
    \/ BuildClone
    \/ BuildResolveTarget
    \/ BuildTargeted
    \/ BuildFullStart
    \/ BuildFullStep
    \/ BuildFullDone
    \/ BuildLocate

SpecBuild == InitBuild /\ [][NextBuild]_vars

(***************************************************************************)
(* Claims about the state store (SpecPure, SpecStore).                     *)
(***************************************************************************)
\* A JSON value: no property holds undefined, no number is NaN.
IsJsonEntry(e) == \A f \in DOMAIN e : e[f] # Undefined /\ e[f] # NaN

IsJsonState(state) == \A id \in DOMAIN state.proposals : IsJsonEntry(state.proposals[id])

\* An entry as JSON holds it: the properties holding undefined left out,
\* null for NaN.
EntryAsJson(e) ==
    LET kept == {f \in DOMAIN e : ~(e[f] = Undefined)}
    IN  [f \in kept |-> IF e[f] \in {NaN} THEN Null ELSE e[f]]

Loads(r) == upsertRuns[r].pc = "idle" /\ upsertRuns'[r].pc = "loaded"

\* The step in which run r writes the state file and returns.
Saves(r) == upsertRuns[r].pc = "merged" /\ upsertRuns'[r].pc = "done"

\* C12: load never fails: when the state file is missing, unreadable or no
\* valid JSON it returns the default {lastCheckedTimestamp: 0, proposals: {}},
\* and it does not modify the file.
C12_LoadReturnsDefaultAndKeepsFile ==
    [][\A r \in StoreRuns :
          Loads(r) =>
              /\ stateFile' = stateFile
              /\ (stateFile.kind # "json" \/ upsertRuns'[r].read = "throws")
                    => /\ upsertRuns'[r].state.lastCheckedTimestamp = 0
                       /\ DOMAIN upsertRuns'[r].state.proposals = {}]_vars

\* A load of a state file cut short whose text still shows an entry: the
\* run holds the default.
C12_Witness ==
    /\ stateFile.kind = "corrupt"
    /\ DOMAIN stateFile.data.proposals # {}
    /\ \E r \in StoreRuns :
          /\ upsertRuns[r].pc = "loaded"
          /\ DOMAIN upsertRuns[r].state.proposals = {}

\* What C13 says of the entry upsert returns: the supplied fields hold the
\* supplied values, the other fields of the prior entry are unchanged, the
\* timestamp is a time of the call.
ReturnedIsMerge(run) ==
    LET e == run.returned
        supplied == DOMAIN run.update \ {"verifiedAt"}
        kept == DOMAIN run.prior \ (DOMAIN run.update \cup {"verifiedAt"})
    IN  /\ DOMAIN e = DOMAIN run.update \cup DOMAIN run.prior \cup {"verifiedAt"}
        /\ \A f \in supplied : e[f] = run.update[f]
        /\ \A f \in kept : e[f] = run.prior[f]
        /\ \E t \in run.calledAt..clock' : e.verifiedAt = <<"T">> \o Decimal(t)

\* The entry the file holds for the identifier of a run, after a step.
PersistedNext(run) ==
    IF stateFile'.kind = "json" /\ run.proposalId \in DOMAIN stateFile'.data.proposals
    THEN stateFile'.data.proposals[run.proposalId]
    ELSE NoEntries

PersistedIds(file) == IF file.kind = "json" THEN DOMAIN file.data.proposals ELSE {}

\* C14: state entries are never deleted: an identifier the store holds is
\* in every later persisted state, whatever the operations in between, a
\* load that finds the file unreadable or corrupt included.
C14_EntriesNeverDeleted ==
    [][PersistedIds(stateFile) \subseteq PersistedIds(stateFile')]_vars

\* C15: two runs that upsert entries for two different identifiers do not
\* interact: when the second of them saves, the file holds both runs'
\* entries as each wrote them, whatever the interleaving of their steps.
C15_NoLostUpdate ==
    [][\A r, q \in StoreRuns :
          (/\ Saves(r)
           /\ upsertRuns[q].pc = "done"
           /\ upsertRuns[q].proposalId # upsertRuns[r].proposalId
           /\ upsertRuns[r].read = "ok"
           /\ upsertRuns[q].read = "ok")
              => /\ PersistedNext(upsertRuns'[r]) = EntryAsJson(upsertRuns'[r].returned)
                 /\ PersistedNext(upsertRuns[q]) = EntryAsJson(upsertRuns[q].returned)]_vars

(***************************************************************************)
(* Claims about the life of an entry (SpecLifecycle, SpecVerify).          *)
(***************************************************************************)
\* The identifiers monitor runs emitted.
EmittedIn(lists) == UNION {Range(lists[i]) : i \in DOMAIN lists}

\* The status the state file holds for an identifier.
StatusIn(file, id) ==
    IF file.kind = "json" /\ id \in DOMAIN file.data.proposals
    THEN file.data.proposals[id].status
    ELSE <<"none">>

TerminalStatuses == {<<"verified">>, <<"failed">>, <<"error">>}

\* C16: an identifier the monitor emits has a `pending` entry in the store
\* when it is emitted, and when the verifier completes a comparison for an
\* emitted identifier the persisted status is verified, failed or error.
C16_PendingThenTerminal ==
    [][/\ \A id \in EmittedIn(emissions') \ EmittedIn(emissions) :
             StatusIn(stateFile', id) = <<"pending">>
       /\ (/\ verifierVars' # verifierVars
           /\ summary'.kind = "result"
           /\ proposalJson.proposalId \in EmittedIn(emissions))
             => StatusIn(stateFile', proposalJson.proposalId) \in TerminalStatuses]_vars

\* C17: a run that ends in a failure that is not recoverable (here: the
\* recording verifier exits non-zero, the artifact file missing at
\* verification time included) leaves a terminal entry for its proposal in
\* the store, never none or `pending`.
C17_FailedRunLeavesTerminalEntry ==
    (ranCli = "recording" /\ exitCode # 0 /\ proposalJson.readable)
        => StatusIn(stateFile, proposalJson.proposalId) \in TerminalStatuses

(***************************************************************************)
(* Claims about the build scripts (SpecBuild).                             *)
(***************************************************************************)
\* The positions in the log of the targeted attempts and of the full-build
\* commands.
TargetedAt == {i \in DOMAIN buildRun.log : buildRun.log[i].kind = "targeted"}
FullAt == {i \in DOMAIN buildRun.log : buildRun.log[i].kind = "full"}

TargetedSkipped == TargetedAt = {}
TargetedFailed == \E i \in TargetedAt : buildRun.log[i].status # 0
TargetedSucceeded == \E i \in TargetedAt : buildRun.log[i].status = 0

\* The run has decided between the full build and the locator.
PastFallbackDecision ==
    \/ buildRun.pc \in {"full", "locate", "done"}
    \/ buildRun.pc = "exited" /\ buildRun.exitedIn \notin {"files", "clone"}

\* The commands of the full build the run executed, in the order of the log.
FullCommandsRun == [k \in 1..Cardinality(FullAt) |->
                       buildRun.log[Cardinality(TargetedAt) + k].command]

IsLargeMonorepo == buildRun.repoUrl = <<IcUrl>>

\* C19: a targeted build is attempted only for the large-monorepo profile
\* with metadata that maps the artifact's file name to a target; for a
\* standalone repository, or with the metadata file or the mapping missing,
\* there is no targeted attempt and the run goes to the full build.
C19_TargetedOnlyForMappedMonorepo ==
    /\ ~TargetedSkipped => (IsLargeMonorepo /\ buildRun.bazelFile = "mapped")
    /\ (PastFallbackDecision /\ (~IsLargeMonorepo \/ buildRun.bazelFile # "mapped"))
          => (TargetedSkipped /\ buildRun.fullEntered)

\* C20: in the full build a non-zero exit of a command does not abort the
\* run: every command of the plan is executed in order and the run goes on
\* to the locator, under the builder account and directly, for both
\* profiles.
C20_FailingCommandDoesNotAbort ==
    (buildRun.fullEntered /\ buildRun.pc \in {"done", "exited"})
        => /\ FullCommandsRun = buildRun.steps
           /\ buildRun.pc = "exited" => buildRun.exitedIn \in {"locate", "copy"}

\* C21: the build script exits 0 if and only if, in this run, the locator
\* found an artifact in the checkout and copied it to the output location;
\* a failure of the clone or checkout, or of the location, gives a non-zero
\* exit, and a file a former run left at the output location never makes
\* the exit 0.
C21_ExitZeroIffLocatedAndCopied ==
    /\ buildRun.exit = 0
          <=> (/\ buildRun.copiedFrom \in {"declared", "bazel-output", "bazel-found"}
               /\ wasmFile = [exists |-> TRUE, content |-> "x"])
    /\ buildRun.exit = 0
          => (buildRun.tree.declared \/ buildRun.tree.bazelOutput \/ buildRun.tree.bazelFound)
    /\ (buildRun.pc = "exited" /\ buildRun.exitedIn \in {"clone", "locate"})
          => (buildRun.exit # 0 /\ buildRun.exit # -1)
    /\ buildRun.pc \in {"done", "exited"} => buildRun.exit \in {0, 1}

\* A run that started with a file of a former run at the output location,
\* found nothing in the checkout and exited non-zero.
C21_Witness ==
    /\ buildRun.pc = "exited"
    /\ buildRun.exitedIn = "locate"
    /\ wasmFile = LeftOverWasm
    /\ buildRun.exit = 1

\* C22: after a full build whose declared output path does not exist, a
\* candidate the recursive search for the artifact's extension finds is
\* used; the run fails to locate the artifact only when the search finds
\* none.
C22_SearchCandidateIsUsed ==
    (/\ buildRun.pc \in {"done", "exited"}
     /\ buildRun.fullEntered
     /\ buildRun.exitedIn \notin {"full", "copy"}
     /\ ~buildRun.tree.declared
     /\ buildRun.tree.candidates)
        => buildRun.exit = 0

(***************************************************************************)
(* The resolver: extract-build-steps.ts.                                   *)
(***************************************************************************)
\* proposal.json as the resolver finds it: unreadable, without and with a
\* commit hash.
ResolverProposals ==
    {UnreadableProposal} \cup
    [readable : {TRUE}, proposalId : {TheProposalId},
     expectedWasmHash : {computeSha256("x")}, expectedArgHash : {Null},
     commitHash : {Null, CommitRef}]

GitCommand == "git checkout 0123456789abcdef0123456789abcdef01234567"

\* The elements the text-completion service may put in "steps": a build
\* command, a source-control command, a number.
StepElements == {JString("cmdA"), JString(GitCommand), JNumber("7")}

\* parsed.steps: missing, a string, an array.
StepsValues ==
    {[kind |-> "undefined", items |-> <<>>], [kind |-> "string", items |-> <<>>]} \cup
    [kind : {"array"}, items : UNION {[1..n -> StepElements] : n \in 0..MaxSteps}]

NoSteps == [kind |-> "undefined", items |-> <<>>]

\* What JSON.parse makes of the text: it throws, or gives null, a number,
\* or an object with or without repoUrl and wasmOutputPath.
ParsedValues ==
    {[kind |-> k, steps |-> NoSteps, repoUrl |-> Undefined, wasmOutputPath |-> Undefined] :
        k \in {"unparsable", "null", "number"}}
    \cup [kind : {"object"}, steps : StepsValues, repoUrl : {Undefined, <<OtherUrl>>},
          wasmOutputPath : {Undefined, DeclaredPath}]

\* response.text || '': the text with or without a Markdown code fence
\* around it; the empty text is among the unparsable ones.
GeminiResponses == [fenced : BOOLEAN, body : ParsedValues]

NoResponse ==
    [fenced |-> FALSE,
     body |-> [kind |-> "unparsable", steps |-> NoSteps, repoUrl |-> Undefined,
               wasmOutputPath |-> Undefined]]

Thrown == [threw |-> TRUE, repoUrl |-> Undefined, steps |-> <<>>, wasmOutputPath |-> Undefined]

OutputWasm == <<"output.wasm">>

\* parseGeminiResponse, with the slip of answering a response it cannot use
\* with a plan of no commands.
parseGeminiResponseDefaulting(response) ==
    LET parsed == response.body
    IN  IF parsed.kind = "object" /\ parsed.steps.kind = "array"
        THEN [threw |-> FALSE,
              repoUrl |-> OrElse(parsed.repoUrl, <<IcUrl>>),
              steps |-> parsed.steps.items,
              wasmOutputPath |-> OrElse(parsed.wasmOutputPath, OutputWasm)]
        ELSE [threw |-> FALSE, repoUrl |-> <<IcUrl>>, steps |-> <<>>,
              wasmOutputPath |-> OutputWasm]

\* parseGeminiResponse: the fence is taken off, JSON.parse may throw,
\* `parsed.steps` of null throws, and steps that are no array throw; every
\* throw is caught and thrown again.
parseGeminiResponse(response) ==
    LET parsed == response.body
    IN  IF parsed.kind = "unparsable" THEN Thrown
        ELSE IF parsed.kind = "null" THEN Thrown
        ELSE IF parsed.steps.kind # "array" THEN Thrown
        ELSE [threw |-> FALSE,
              repoUrl |-> OrElse(parsed.repoUrl, <<IcUrl>>),
              steps |-> parsed.steps.items,
              wasmOutputPath |-> OrElse(parsed.wasmOutputPath, OutputWasm)]

ResolverStart ==
    [pc |-> "start", calls |-> 0, response |-> NoResponse, parsed |-> Thrown, exit |-> -1,
     exitedIn |-> ""]

nonResolverVars ==
    <<proposalJson, wasmFile, stateFile, clock, verifierVars, call, monitorVars,
      upsertRuns, buildRun, fetchRun, monitorRun>>

ResolverExit(where) ==
    [resolverRun EXCEPT !.pc = "exited", !.exit = 1, !.exitedIn = where]

\* main: proposal.json is read and parsed, and the commit hash is required.
ResolverReadProposal ==
    /\ resolverRun.pc = "start"
    /\ resolverRun' =
          IF ~proposalJson.readable THEN ResolverExit("proposal")
          ELSE IF ~Truthy(proposalJson.commitHash) THEN ResolverExit("commit")
          ELSE [resolverRun EXCEPT !.pc = "prompted"]
    /\ UNCHANGED <<buildStepsJson, nonResolverVars>>

\* await callGemini(prompt): it throws (no API key, the service fails) or
\* returns a text; main().catch exits with 1.
CallGeminiAnswering(responses) ==
    /\ resolverRun.pc = "prompted"
    /\ \/ resolverRun' = [ResolverExit("callGemini") EXCEPT !.calls = @ + 1]
       \/ \E response \in responses :
             resolverRun' = [resolverRun EXCEPT !.pc = "responded", !.calls = @ + 1,
                                                !.response = response]
    /\ UNCHANGED <<buildStepsJson, nonResolverVars>>

ResolverCallGemini == CallGeminiAnswering(GeminiResponses)

\* const { repoUrl, steps, wasmOutputPath } = parseGeminiResponse(response)
ResolverParse ==
    /\ resolverRun.pc = "responded"
    /\ LET parsed == parseGeminiResponse(resolverRun.response)
       IN  resolverRun' = IF parsed.threw
                          THEN ResolverExit("parseGeminiResponse")
                          ELSE [resolverRun EXCEPT !.pc = "parsed", !.parsed = parsed]
    /\ UNCHANGED <<buildStepsJson, nonResolverVars>>

\* writeFileSync('build-steps.json', JSON.stringify(buildSteps, null, 2)):
\* the plan has no upgradeArgs and no buildProfile.
ResolverWrite ==
    /\ resolverRun.pc = "parsed"
    /\ buildStepsJson' =
          [readable |-> TRUE, upgradeArgs |-> Undefined,
           commitHash |-> proposalJson.commitHash,
           repoUrl |-> resolverRun.parsed.repoUrl, buildProfile |-> "",
           steps |-> resolverRun.parsed.steps,
           wasmOutputPath |-> resolverRun.parsed.wasmOutputPath]
    /\ resolverRun' = [resolverRun EXCEPT !.pc = "done", !.exit = 0]
    /\ UNCHANGED nonResolverVars

\* build-steps.json of a former run.
LeftOverPlan ==
    [readable |-> TRUE, upgradeArgs |-> Null, commitHash |-> CommitRef,
     repoUrl |-> <<IcUrl>>, buildProfile |-> "", steps |-> <<JString("cmdB")>>,
     wasmOutputPath |-> DeclaredPath]

InitResolve ==
    /\ proposalJson \in ResolverProposals
    /\ buildStepsJson \in {NoBuildSteps, LeftOverPlan}
    /\ wasmFile = [exists |-> FALSE, content |-> "x"]
    /\ stateFile = MissingFile
    /\ clock = 0
    /\ ranCli = "none"
    /\ exitCode = -1
    /\ summary = NoSummary
    /\ call = NoCall
    /\ MonitorIdle
    /\ StoreIdle
    /\ BuildIdle
    /\ fetchRun = NoStage
    /\ resolverRun = ResolverStart
    /\ monitorRun = NoStage

NextResolve ==
    \/ ResolverReadProposal
    \/ ResolverCallGemini
    \/ ResolverParse
    \/ ResolverWrite

SpecResolve == InitResolve /\ [][NextResolve]_vars

(***************************************************************************)
(* The ingestion step: fetch-proposal.ts.                                  *)
(***************************************************************************)
\* What get_proposal_info answers: the call throws; no such proposal; a
\* proposal without data; a proposal with its action (none, one that
\* installs no code, InstallCode), the wasm_module_hash of an InstallCode
\* action as bytesToHex prints it, and the commit hash extractCommitHash
\* finds in title, summary and url.
NoAnswer == [kind |-> "none", action |-> "", wasmModuleHash |-> Null, commitHash |-> Null]

GovernanceAnswers ==
    {[kind |-> k, action |-> "", wasmModuleHash |-> Null, commitHash |-> Null] :
        k \in {"throws", "not-found", "empty"}}
    \cup [kind : {"proposal"}, action : {"", "UpdateCanisterSettings"},
          wasmModuleHash : {Null}, commitHash : {Null, CommitRef}]
    \cup [kind : {"proposal"}, action : {"InstallCode"},
          wasmModuleHash : {Null, computeSha256("x"), computeSha256("y")},
          commitHash : {Null, CommitRef}]

\* What main does with a proposal: skip it, fail, or write proposal.json;
\* with the slip of writing the payload of a proposal that installs no code.
FetchOutcomeWritingAnyAction(answer) ==
    IF answer.action = "" THEN "skip"
    ELSE IF answer.action = "InstallCode" /\ ~Truthy(answer.wasmModuleHash) THEN "fail"
    ELSE "write"

\* What main does with a proposal: `if (!action)` and
\* `if (!action.InstallCode)` skip it, `if (!expectedWasmHash)` fails, and
\* otherwise proposal.json is written.
FetchOutcome(answer) ==
    IF answer.action = "" THEN "skip"
    ELSE IF answer.action # "InstallCode" THEN "skip"
    ELSE IF ~Truthy(answer.wasmModuleHash) THEN "fail"
    ELSE "write"

\* The run before main: process.argv[2] given or not, GITHUB_OUTPUT set or
\* not.
FetchStarts ==
    [pc : {"start"}, proposalId : {Undefined, TheProposalId}, githubOutputSet : BOOLEAN,
     answer : {NoAnswer}, githubOutput : {<<>>}, skipLogged : {FALSE}, exit : {-1}]

nonFetchVars ==
    <<buildStepsJson, wasmFile, stateFile, clock, verifierVars, call, monitorVars,
      upsertRuns, buildRun, resolverRun, monitorRun>>

\* main up to the answer of the governance canister: the usage error, and
\* the call, whose throw main().catch turns into exit 1.
FetchQuery ==
    /\ fetchRun.pc = "start"
    /\ IF ~Truthy(fetchRun.proposalId)
       THEN fetchRun' = [fetchRun EXCEPT !.pc = "exited", !.exit = 1]
       ELSE \E answer \in GovernanceAnswers :
               fetchRun' = IF answer.kind = "throws"
                           THEN [fetchRun EXCEPT !.pc = "exited", !.exit = 1,
                                                 !.answer = answer]
                           ELSE [fetchRun EXCEPT !.pc = "answered", !.answer = answer]
    /\ UNCHANGED <<proposalJson, nonFetchVars>>

\* setGitHubOutput('skipped', 'true'); setGitHubOutput('skip_reason', ...)
SkipOutputs(run) ==
    IF run.githubOutputSet
    THEN <<"skipped=true",
           IF run.answer.action = "" THEN "skip_reason=no_action_data"
           ELSE "skip_reason=UpdateCanisterSettings">>
    ELSE <<>>

\* main from the answer on: the exits for a missing proposal, the skips,
\* the missing hash, and the write of proposal.json, which has no
\* expectedArgHash.
FetchDecide ==
    /\ fetchRun.pc = "answered"
    /\ IF fetchRun.answer.kind # "proposal"
       THEN /\ fetchRun' = [fetchRun EXCEPT !.pc = "exited", !.exit = 1]
            /\ proposalJson' = proposalJson
       ELSE IF FetchOutcome(fetchRun.answer) = "skip"
       THEN /\ fetchRun' = [fetchRun EXCEPT !.pc = "exited", !.exit = 0,
                                            !.skipLogged = TRUE,
                                            !.githubOutput = SkipOutputs(fetchRun)]
            /\ proposalJson' = proposalJson
       ELSE IF FetchOutcome(fetchRun.answer) = "fail"
       THEN /\ fetchRun' = [fetchRun EXCEPT !.pc = "exited", !.exit = 1]
            /\ proposalJson' = proposalJson
       ELSE /\ fetchRun' = [fetchRun EXCEPT !.pc = "done", !.exit = 0]
            /\ proposalJson' =
                  [readable |-> TRUE, proposalId |-> fetchRun.proposalId,
                   expectedWasmHash |-> fetchRun.answer.wasmModuleHash,
                   expectedArgHash |-> Undefined,
                   commitHash |-> fetchRun.answer.commitHash]
    /\ UNCHANGED nonFetchVars

(***************************************************************************)
(* The stages side by side on one working directory: fetch-proposal.ts,    *)
(* extract-build-steps.ts, the build script and compare-hash.ts, each      *)
(* started once at any time, over the files a former run for another       *)
(* proposal may have left.                                                 *)
(***************************************************************************)
\* proposal.json of a former run for another proposal.
LeftOverProposal ==
    [readable |-> TRUE, proposalId |-> OtherProposalId,
     expectedWasmHash |-> computeSha256("y"), expectedArgHash |-> Undefined,
     commitHash |-> CommitRef]

\* The responses of the text-completion service in these runs: one that
\* does not parse and one with a plan of one command.
PipelineResponses ==
    {NoResponse,
     [fenced |-> FALSE,
      body |-> [kind |-> "object",
                steps |-> [kind |-> "array", items |-> <<JString("cmdA")>>],
                repoUrl |-> Undefined, wasmOutputPath |-> DeclaredPath]]}

PipelineCallGemini == CallGeminiAnswering(PipelineResponses)

InitPipeline ==
    /\ proposalJson \in {UnreadableProposal, LeftOverProposal}
    /\ buildStepsJson \in {NoBuildSteps, LeftOverPlan}
    /\ wasmFile \in {[exists |-> FALSE, content |-> "x"], LeftOverWasm}
    /\ stateFile = MissingFile
    /\ clock = 0
    /\ ranCli = "none"
    /\ exitCode = -1
    /\ summary = NoSummary
    /\ call = NoCall
    /\ MonitorIdle
    /\ StoreIdle
    /\ buildRun \in {b \in BuildStarts :
                        /\ b.script = "targeted"
                        /\ b.isRoot
                        /\ b.bazelFile \in {"absent", "mapped"}}
    /\ fetchRun \in {f \in FetchStarts : f.proposalId = TheProposalId}
    /\ resolverRun = ResolverStart
    /\ monitorRun = NoStage

NextPipeline ==
    \/ FetchQuery
    \/ FetchDecide
    \/ ResolverReadProposal
    \/ PipelineCallGemini
    \/ ResolverParse
    \/ ResolverWrite
    \/ BuildCheckFiles
    \/ BuildClone
    \/ BuildResolveTarget
    \/ BuildTargeted
    \/ BuildFullStart
    \/ BuildFullStep
    \/ BuildFullDone
    \/ BuildLocate
    \/ VerifyMain

SpecPipeline == InitPipeline /\ [][NextPipeline]_vars

(***************************************************************************)
(* The monitor that consults the state file, step by step, beside the      *)
(* verifier that records its result: main awaits listProposals between     *)
(* its loadState and its saveState.                                        *)
(***************************************************************************)
MonitorStart ==
    [pc |-> "start", config |-> [readable |-> FALSE, enabled |-> FALSE, topics |-> <<>>],
     state |-> DefaultState, exit |-> -1]

nonMonitorRunVars ==
    <<fileVars, clock, verifierVars, call, monitorKind, upsertRuns, buildRun,
      fetchRun, resolverRun>>

\* const config = loadConfig(); const state = loadState();
\* if (!config.enabled) process.exit(0)
MonitorStateLoad ==
    /\ monitorKind = "state"
    /\ monitorRun.pc = "start"
    /\ \E config \in TrackingConfigs :
          monitorRun' =
             IF ~config.readable
             THEN [monitorRun EXCEPT !.pc = "exited", !.exit = 1]
             ELSE IF ~config.enabled
             THEN [monitorRun EXCEPT !.pc = "exited", !.exit = 0, !.config = config,
                                     !.state = loadState(stateFile)]
             ELSE [monitorRun EXCEPT !.pc = "listing", !.config = config,
                                     !.state = loadState(stateFile)]
    /\ UNCHANGED <<stateFile, newProposalsJson, emissions, runRecords, nonMonitorRunVars>>

\* main from the answer of listProposals on: the filter, the pending
\* entries, saveState of the state loaded before, new-proposals.json; a
\* throw of listProposals ends in main().catch.
MonitorStateSave ==
    /\ monitorRun.pc = "listing"
    /\ \/ /\ monitorRun' = [monitorRun EXCEPT !.pc = "exited", !.exit = 1]
          /\ UNCHANGED <<stateFile, newProposalsJson, emissions, runRecords>>
       \/ \E governance \in ProposalLists(MonitorInfos) :
             LET state == monitorRun.state
                 config == monitorRun.config
                 proposals == listProposals(governance, LIST_PROPOSALS_LIMIT)
                 newProposals == SelectSeq(proposals,
                                           LAMBDA p : IsUntracked(p, config, state))
                 proposalIds == IdStrings(newProposals)
             IN  /\ monitorRun' = [monitorRun EXCEPT !.pc = "done", !.exit = 0]
                 /\ IF Len(newProposals) = 0
                    THEN /\ stateFile' =
                               saveState([state EXCEPT !.lastCheckedTimestamp = clock])
                         /\ UNCHANGED <<newProposalsJson, emissions, runRecords>>
                    ELSE /\ stateFile' =
                               saveState([MarkedPending(state, proposalIds, clock)
                                             EXCEPT !.lastCheckedTimestamp = clock])
                         /\ newProposalsJson' = proposalIds
                         /\ emissions' = Append(emissions, proposalIds)
                         /\ runRecords' = Dispatched(runRecords, proposalIds)
    /\ UNCHANGED nonMonitorRunVars

\* The state file with a pending entry for the proposal of proposal.json.
PendingState ==
    [lastCheckedTimestamp |-> 0,
     proposals |-> [id \in {Decimal(MIN_PROPOSAL_ID)} |-> PendingEntry(0)]]

InitRace ==
    /\ proposalJson \in LifecycleProposals
    /\ buildStepsJson = [readable |-> FALSE, upgradeArgs |-> Null]
    /\ wasmFile \in WasmFiles
    /\ stateFile \in {MissingFile, JsonFile(DefaultState), JsonFile(PendingState)}
    /\ clock = 0
    /\ ranCli = "none"
    /\ exitCode = -1
    /\ summary = NoSummary
    /\ call = NoCall
    /\ monitorKind = "state"
    /\ runRecords = <<>>
    /\ newProposalsJson = <<>>
    /\ emissions = <<>>
    /\ StoreIdle
    /\ BuildIdle
    /\ fetchRun = NoStage
    /\ resolverRun = NoStage
    /\ monitorRun = MonitorStart

NextRace ==
    \/ MonitorStateLoad
    \/ MonitorStateSave
    \/ RecordingVerifyMain
    \/ Tick

SpecRace == InitRace /\ [][NextRace]_vars

(***************************************************************************)
(* Claims about the resolver (SpecResolve).                                *)
(***************************************************************************)
\* The run has a response of the text-completion service in hand.
HasResponse == resolverRun.pc \in {"responded", "parsed", "done"} \/
               (resolverRun.pc = "exited" /\ resolverRun.exitedIn = "parseGeminiResponse")

\* The build-command list of the response is a sequence of strings.
IsSequenceOfStrings(response) ==
    /\ response.body.kind = "object"
    /\ response.body.steps.kind = "array"
    /\ \A i \in DOMAIN response.body.steps.items :
          response.body.steps.items[i].type = "string"

\* The resolver got past parseGeminiResponse, or failed in it.
ParseReturned == resolverRun.pc \in {"parsed", "done"}
ParseFailed == resolverRun.pc = "exited" /\ resolverRun.exitedIn = "parseGeminiResponse"

\* C23: the resolver fails whenever the build-command list of the response
\* is not a sequence of strings (missing, no array, an array with an
\* element that is no string), and returns a plan only when every element
\* is a string.
C23_PlanOnlyFromSequenceOfStrings ==
    /\ ParseReturned => IsSequenceOfStrings(resolverRun.response)
    /\ ParseFailed => ~IsSequenceOfStrings(resolverRun.response)

\* The validation the resolver applies to a response: it parses to an
\* object whose steps are an array.
PassedValidation(response) ==
    /\ response.body.kind = "object"
    /\ response.body.steps.kind = "array"

SourceControlCommands == {GitCommand}

\* C26: no build command of a plan the resolver emits is a source-control
\* command, whatever the text-completion service returns.
C26_NoSourceControlCommandInPlan ==
    resolverRun.pc = "done"
        => \A i \in DOMAIN buildStepsJson.steps :
              buildStepsJson.steps[i].text \notin SourceControlCommands

(***************************************************************************)
(* Claims about the stages of one run (SpecPipeline).                      *)
(***************************************************************************)
\* The governance canister answered with a proposal whose action is absent
\* or installs no code.
NotCodeInstall ==
    fetchRun.answer.kind = "proposal" /\ fetchRun.answer.action # "InstallCode"

\* The work of the later stages: the resolver called the text-completion
\* service, the build script went past its file checks to the clone, the
\* verifier computed and reported a result.
ResolverWorked == resolverRun.calls > 0 \/ resolverRun.pc \in {"responded", "parsed", "done"}

ExecutorWorked ==
    /\ buildRun.pc # "start"
    /\ ~(buildRun.pc = "exited" /\ buildRun.exitedIn = "files")

VerifierWorked == summary.kind = "result"

C28_MonitorSaveKeepsTerminalEntry ==
    [][monitorRun' # monitorRun
          => \A id \in PersistedIds(stateFile) :
                StatusIn(stateFile, id) \in TerminalStatuses
                   => /\ id \in PersistedIds(stateFile')
                      /\ stateFile'.data.proposals[id] = stateFile.data.proposals[id]]_vars

(***************************************************************************)
(* Further claims about the store (SpecStore).                             *)
(***************************************************************************)
\* C29: in every persisted state an entry whose status is `verified` has
\* its wasmHashMatch true, whoever wrote it: the update-state command line
\* with any status and flags, the verifier, a merge over an entry that was
\* pending, failed or error.
C29_VerifiedHasHashMatch ==
    \A id \in PersistedIds(stateFile) :
        StatusIn(stateFile, id) = <<"verified">>
            => /\ "wasmHashMatch" \in DOMAIN stateFile.data.proposals[id]
               /\ stateFile.data.proposals[id].wasmHashMatch = JTrue

\* The entries of a state for the identifiers other than one.
OtherEntries(state, proposalId) ==
    [id \in DOMAIN state.proposals \ {proposalId} |-> state.proposals[id]]

Merges(r) == upsertRuns[r].pc = "loaded" /\ upsertRuns'[r].pc = "merged"

\* C30: updateProposalState(id, update) changes only the entry for id: the
\* entries of the other identifiers and lastCheckedTimestamp are, in the
\* state it holds after its merge and in the file it saves, those of the
\* state it loaded.
C30_UpsertChangesOnlyItsEntry ==
    [][\A r \in StoreRuns :
          /\ Merges(r)
                => /\ OtherEntries(upsertRuns'[r].state, upsertRuns[r].proposalId)
                         = OtherEntries(upsertRuns[r].state, upsertRuns[r].proposalId)
                   /\ upsertRuns'[r].state.lastCheckedTimestamp
                         = upsertRuns[r].state.lastCheckedTimestamp
          /\ Saves(r)
                => /\ stateFile'.kind = "json"
                   /\ OtherEntries(stateFile'.data, upsertRuns[r].proposalId)
                         = OtherEntries(upsertRuns[r].state, upsertRuns[r].proposalId)
                   /\ stateFile'.data.lastCheckedTimestamp
                         = upsertRuns[r].state.lastCheckedTimestamp]_vars

\* A call for one identifier has saved a file that holds the entry of
\* another and a timestamp of a monitor run.
C30_Witness ==
    \E r \in StoreRuns :
        /\ upsertRuns[r].pc = "done"
        /\ upsertRuns[r].read = "ok"
        /\ upsertRuns[r].proposalId = OtherProposalId
        /\ stateFile.kind = "json"
        /\ TheProposalId \in DOMAIN stateFile.data.proposals
        /\ stateFile.data.lastCheckedTimestamp = 1

====
